---- MODULE Spec2Model ----
(***************************************************************************)
(* A model of build_npdm.py: the BinaryWriter byte sink, the JSON field    *)
(* readers, the service-table and kernel-capability encoders, the Meta /   *)
(* Acid / Aci section writers and main's layout of the output file.        *)
(*                                                                         *)
(* Representation.                                                         *)
(*   - A byte is a number in 0..255, a stream a sequence of bytes.         *)
(*   - Python integers that are shifted and or-ed into 32-bit capability   *)
(*     words are sets of bit positions (bit b set <=> b in the set), so    *)
(*     `x | y` is a union and `x << s` adds s to every position.  Bit 31   *)
(*     is representable this way although TLC's integers stop at 2^31-1.   *)
(*   - A JSON number is JInt(n) (a native number) or JHex(ds) (a string    *)
(*     read with int(s, 16), ds its hexadecimal digits); a JSON boolean is *)
(*     "true" / "false"; Absent is a key that the dict does not hold.      *)
(*   - A JSON list that is the `value` of a capability entry is the record *)
(*     [list |-> <<...>>], so that the values of all entries are records.  *)
(*   - Numbers of the configuration stay below 2^31.                       *)
(***************************************************************************)
EXTENDS Integers, Sequences, FiniteSets, TLC

VARIABLES
    contents,      \* the configuration loaded from the JSON file
    pc,            \* where main is: "sac", "kc", "meta", "acid", "aci", "patch", "save", "done", "failed"
    err,           \* the message of the abort (or the exception) that ended the build, "" if none
    writer,        \* main's BinaryWriter (the output file's bytes)
    sac_writer,    \* write_sac's BinaryWriter
    kc_writer,     \* write_kc's BinaryWriter
    meta_writer,   \* write_meta's BinaryWriter
    acid_writer,   \* write_acid's BinaryWriter
    aci_writer,    \* write_aci's BinaryWriter
    cap_idx,       \* write_kc: the number of capability entries encoded so far
    data,          \* write_kc: the local `data` (last syscall value read), Unbound before
    val,           \* write_kc: the local `val` (last syscall number), -1 while unbound
    layout,        \* main's locals meta_size, acid_offset, acid_size, aci_offset, aci_size
    outfile        \* the bytes handed to save(), NoFile before

vars == <<contents, pc, err, writer, sac_writer, kc_writer, meta_writer,
          acid_writer, aci_writer, cap_idx, data, val, layout, outfile>>

----------------------------------------------------------------------------
(* Bits and bytes *)

\* The set of bit positions of a number 0 <= n < 2^31.
BitsOf(n0) == CHOOSE r \in {{b \in 0..30 : (n \div (2^b)) % 2 = 1} : n \in {n0}} : TRUE

\* x << s on bit sets.
Shl(bits, s) == {b + s : b \in bits}

\* (1 << k) - 1
Ones(k) == 0..(k - 1)

\* Byte k (0 the least significant) of a value.
ByteOf(bits, k) ==
    LET bit(j) == IF (8 * k + j) \in bits THEN 2^j ELSE 0
    IN  (bit(0) + bit(1) + bit(2) + bit(3)) + (bit(4) + bit(5) + bit(6) + bit(7))

\* struct.pack("<I" / "<Q" / "B", value): the little-endian bytes of the value.
pack(bits0, nbytes) ==
    CHOOSE r \in {[i \in 1..nbytes |-> ByteOf(bits, i - 1)] : bits \in {bits0}} : TRUE

----------------------------------------------------------------------------
(* BinaryWriter *)

\* F applied to the value of e.  TLC evaluates a LET definition or an operator
\* argument anew at every use; a bound variable holds the value, computed once.
With(e, F(_)) == CHOOSE r \in {F(x) : x \in {e}} : TRUE

NewWriter == [stream |-> <<>>, position |-> 0]

Zeros(n) == [i \in 1..n |-> 0]

\* _fill_bytes with relative = False: the position is not added.
fill_bytes_absolute(writer0, offset) ==
    With(writer0, LAMBDA w :
        LET bytes_to_add == offset - Len(w.stream)
        IN  IF bytes_to_add > 0
            THEN [w EXCEPT !.stream = w.stream \o Zeros(bytes_to_add)]
            ELSE w)

fill_bytes(writer0, offset) ==
    With(writer0, LAMBDA w :
        LET bytes_to_add == offset - Len(w.stream) + w.position
        IN  IF bytes_to_add > 0
            THEN [w EXCEPT !.stream = w.stream \o Zeros(bytes_to_add)]
            ELSE w)

seek(w, offset) == fill_bytes([w EXCEPT !.position = offset], 0)

seek_rel(writer0, offset) ==
    With(writer0, LAMBDA w : fill_bytes([w EXCEPT !.position = w.position + offset], 0))

align(writer0, alignment) ==
    With(writer0, LAMBDA w :
        LET pos == w.position
            delta == (((-pos) % alignment) + alignment) % alignment
        IN  seek_rel(w, delta))

write(writer0, raw0) ==
    With(raw0, LAMBDA raw :
    With(fill_bytes(writer0, Len(raw)), LAMBDA f :
        LET s == f.stream
            p == f.position
        IN  [stream |-> SubSeq(s, 1, p) \o raw \o SubSeq(s, p + Len(raw) + 1, Len(s)),
             position |-> p + Len(raw)]))

write_u8(w, bits) == write(w, pack(bits, 1))

write_u32(w, bits) == write(w, pack(bits, 4))

write_u64(w, bits) == write(w, pack(bits, 8))

write_bytes(w, value) == write(w, value)

write_sub(w, other) == write_bytes(w, other.stream)

\* str.encode("ascii") fails on a character above 127.
IsAscii(s) == \A i \in 1..Len(s) : s[i] <= 127

\* write_string without max_len: the characters' ASCII codes.
write_string(w, value) == write(w, value)

\* write_string with max_len > 0: truncated to max_len, padded with NULs.
write_string_max(w, value, max_len) ==
    write(w, [i \in 1..max_len |-> IF i <= Len(value) THEN value[i] ELSE 0])

----------------------------------------------------------------------------
(* JSON values and the typed readers *)

JInt(n) == [t |-> "int", v |-> n, s |-> <<>>]
JHex(ds) == [t |-> "str", v |-> 0, s |-> ds]
Null == [t |-> "null", v |-> 0, s |-> <<>>]
Absent == [t |-> "absent", v |-> 0, s |-> <<>>]
Unbound == [t |-> "unbound", v |-> 0, s |-> <<>>]
NoDefault == Absent

\* int(s, 16) of a digit string: the digits are base-16, most significant first.
RECURSIVE HexValue(_)
HexValue(ds) ==
    IF ds = <<>> THEN 0
    ELSE 16 * HexValue(SubSeq(ds, 1, Len(ds) - 1)) + ds[Len(ds)]

\* The isinstance ladder of json_read_int (and of the syscall / owner-id loops):
\* a number is taken as it is, a string is parsed base 16, anything else raises
\* (abort is called with two arguments: a TypeError); int("", 16) raises ValueError.
to_int(x) ==
    IF x.t = "int" THEN [ok |-> TRUE, err |-> "", val |-> x.v]
    ELSE IF x.t = "str"
    THEN IF x.s = <<>> THEN [ok |-> FALSE, err |-> "ValueError", val |-> 0]
         ELSE [ok |-> TRUE, err |-> "", val |-> HexValue(x.s)]
    ELSE [ok |-> FALSE, err |-> "TypeError", val |-> 0]

json_read_value(x, default) ==
    IF x # Absent THEN [ok |-> TRUE, err |-> "", data |-> x]
    ELSE IF default # NoDefault THEN [ok |-> TRUE, err |-> "", data |-> default]
    ELSE [ok |-> FALSE, err |-> "couldn't find key", data |-> x]

json_read_int(x, min_val, max_val, default) ==
    LET r == json_read_value(x, default)
        c == to_int(r.data)
    IN  IF ~r.ok THEN [ok |-> FALSE, err |-> r.err, val |-> 0]
        ELSE IF ~c.ok THEN c
        ELSE IF min_val <= c.val /\ c.val <= max_val THEN c
        ELSE [ok |-> FALSE, err |-> "must be between", val |-> c.val]

\* json_read_u64 / json_read_u32: the upper bound (1 << 64) - 1 or (1 << 32) - 1
\* is above every number of the model, so only the lower bound can reject.
json_read_wide(x, default) ==
    LET r == json_read_value(x, default)
        c == to_int(r.data)
    IN  IF ~r.ok THEN [ok |-> FALSE, err |-> r.err, val |-> 0]
        ELSE IF ~c.ok THEN c
        ELSE IF 0 <= c.val THEN c
        ELSE [ok |-> FALSE, err |-> "must be between", val |-> c.val]

json_read_u16(x, default) == json_read_int(x, 0, 65535, default)

json_read_u8(x, default) == json_read_int(x, 0, 255, default)

\* A JSON boolean is "true" or "false"; default "none" is no default.
json_read_bool(x, default) ==
    IF x \in {"true", "false"} THEN [ok |-> TRUE, err |-> "", val |-> (x = "true")]
    ELSE IF x = "absent" /\ default # "none"
    THEN [ok |-> TRUE, err |-> "", val |-> (default = "true")]
    ELSE IF x = "absent" THEN [ok |-> FALSE, err |-> "couldn't find key", val |-> FALSE]
    ELSE [ok |-> FALSE, err |-> "must be a boolean", val |-> FALSE]

json_read_str(x, max_len) ==
    IF max_len <= 0 \/ Len(x) <= max_len THEN [ok |-> TRUE, err |-> "", val |-> x]
    ELSE [ok |-> FALSE, err |-> "string must be less than max_len in length", val |-> x]

----------------------------------------------------------------------------
(* write_sac: the service access control table *)

\* The length byte written without the - 1.
sac_head_full_length(flag, service) == flag + Len(service)

\* 0x80 | (len(service) - 1) for service_host, len(service) - 1 for service_access:
\* the length is at most 8, so the or with 0x80 is an addition.
sac_head(flag, service) == flag + (Len(service) - 1)

\* One `for service in ...` loop: flag is 0x80 for service_host, 0 for service_access.
RECURSIVE sac_loop(_, _, _, _)
sac_loop(w, services, i, flag) ==
    IF i > Len(services) THEN [ok |-> TRUE, err |-> "", writer |-> w]
    ELSE LET service == services[i]
             w1 == write_u8(w, BitsOf(sac_head(flag, service)))
         IN  IF ~(1 <= Len(service) /\ Len(service) <= 8)
             THEN [ok |-> FALSE, err |-> "services must be between 1 and 8 chars long",
                   writer |-> w]
             ELSE IF ~IsAscii(service)
             THEN [ok |-> FALSE, err |-> "UnicodeEncodeError", writer |-> w1]
             ELSE sac_loop(write_string(w1, service), services, i + 1, flag)

write_sac(c) ==
    With(sac_loop(NewWriter, c.service_host, 1, 128), LAMBDA host :
        IF ~host.ok THEN host
        ELSE sac_loop(host.writer, c.service_access, 1, 0))

----------------------------------------------------------------------------
(* write_kc: the kernel capability words *)

MaxKernelCaps == 32
MaxSyscall == 191
SyscallsPerGroup == 24
NumGroups == 8
MaxMapRegions == 3
IrqPairLen == 2
IrqNone == 1023

\* The state of write_kc's loop: its writer and the locals that outlive an iteration.
KcState(w, d, v) == [ok |-> TRUE, err |-> "", writer |-> w, data |-> d, val |-> v]

\* An abort that reports nothing and lets the loop go on.
KcFail_continue(st, msg) == st

KcFail(st, msg) == [st EXCEPT !.ok = FALSE, !.err = msg]

\* writer.write_u32(cap)
KcEmit(st, cap) == [st EXCEPT !.writer = write_u32(st.writer, cap)]

kc_kernel_flags(st, cap) ==
    LET value == cap.value
        hi == json_read_int(value.highest_thread_priority, 0, 63, NoDefault)
        lo == json_read_int(value.lowest_thread_priority, 0, 63, NoDefault)
        lc == json_read_u8(value.lowest_cpu_id, NoDefault)
        hc == json_read_u8(value.highest_cpu_id, NoDefault)
    IN  IF ~hi.ok THEN KcFail(st, hi.err)
        ELSE IF ~lo.ok THEN KcFail(st, lo.err)
        ELSE IF ~lc.ok THEN KcFail(st, lc.err)
        ELSE IF ~hc.ok THEN KcFail(st, hc.err)
        ELSE KcEmit(st, Ones(3) \cup Shl(BitsOf(hi.val), 4) \cup Shl(BitsOf(lo.val), 10)
                        \cup Shl(BitsOf(lc.val), 16) \cup Shl(BitsOf(hc.val), 24))

\* The range check with the upper bound excluded.
syscall_in_range_excl(v) == 0 <= v /\ v < MaxSyscall

\* 0 <= val <= 0xbf
syscall_in_range(v) == 0 <= v /\ v <= MaxSyscall

\* The group computed with groups one number too wide.
SyscallGroup_wide(v) == v \div (SyscallsPerGroup + 1)

\* groups[val // 24] |= 1 << (val % 24)
SyscallGroup(v) == v \div SyscallsPerGroup

SyscallBit(v) == v % SyscallsPerGroup

\* `for name, data in value.items()`: items is the sequence of the dict's values in
\* order (the names are the distinct keys).  groups[g + 1] is the bitmap of group g.
RECURSIVE syscalls_loop(_, _, _, _)
syscalls_loop(st, items, i, groups) ==
    IF i > Len(items) THEN [st |-> st, groups |-> groups]
    ELSE LET d == items[i]
             c == to_int(d)
         IN  IF ~c.ok
             THEN [st |-> KcFail([st EXCEPT !.data = d], c.err), groups |-> groups]
             ELSE IF ~syscall_in_range(c.val)
             THEN [st |-> KcFail([st EXCEPT !.data = d, !.val = c.val],
                                 "syscall values must be between 0 and 0xbf"),
                   groups |-> groups]
             ELSE syscalls_loop([st EXCEPT !.data = d, !.val = c.val], items, i + 1,
                                [groups EXCEPT ![SyscallGroup(c.val) + 1] =
                                     @ \cup {SyscallBit(c.val)}])

\* The loop over the groups without the `if group`: a word for every group.
RECURSIVE syscalls_emit_all(_, _, _)
syscalls_emit_all(st, groups, idx) ==
    IF idx >= NumGroups THEN st
    ELSE syscalls_emit_all(KcEmit(st, Ones(4) \cup Shl(groups[idx + 1], 5)
                                      \cup Shl(BitsOf(idx), 29)),
                           groups, idx + 1)

\* `for idx, group in enumerate(groups): if group: ... write_u32(cap)`
RECURSIVE syscalls_emit(_, _, _)
syscalls_emit(st, groups, idx) ==
    IF idx >= NumGroups THEN st
    ELSE IF groups[idx + 1] # {}
    THEN syscalls_emit(KcEmit(st, Ones(4) \cup Shl(groups[idx + 1], 5)
                                  \cup Shl(BitsOf(idx), 29)),
                       groups, idx + 1)
    ELSE syscalls_emit(st, groups, idx + 1)

kc_syscalls(st, cap) ==
    With(syscalls_loop(st, cap.value.list, 1, [g \in 1..NumGroups |-> {}]), LAMBDA r :
        IF ~r.st.ok THEN r.st ELSE syscalls_emit(r.st, r.groups, 0))

\* The first word is written before the second word's fields are read.
kc_map(st, cap) ==
    LET value == cap.value
        address == json_read_int(value.address, 0, 2^24 - 1, NoDefault)
        is_ro == json_read_bool(value.is_ro, "none")
        size == json_read_int(value.size, 0, 2^20 - 1, NoDefault)
        is_io == json_read_bool(value.is_io, "none")
    IN  IF ~address.ok THEN KcFail(st, address.err)
        ELSE IF ~is_ro.ok THEN KcFail(st, is_ro.err)
        ELSE With(KcEmit(st, Ones(6) \cup Shl(BitsOf(address.val), 7)
                             \cup (IF is_ro.val THEN {31} ELSE {})), LAMBDA st1 :
            IF ~size.ok THEN KcFail(st1, size.err)
            ELSE IF ~is_io.ok THEN KcFail(st1, is_io.err)
            ELSE KcEmit(st1, Ones(6) \cup Shl(BitsOf(size.val), 7)
                             \cup (IF is_io.val THEN {31} ELSE {})))

\* `cap = (1 << 7) - 1` rebinds cap to a number before json_read_int(cap, "value", ...)
\* looks the key up in it: `"value" in 127` raises TypeError, whatever the entry holds.
kc_map_page(st, cap) == KcFail(st, "TypeError")

\* The first region (in list order) whose fields are rejected, 0 if none.
RegionRead(region) ==
    LET rt == json_read_int(region.region_type, 0, 3, NoDefault)
        ro == json_read_bool(region.is_ro, "none")
    IN  IF ~rt.ok THEN [ok |-> FALSE, err |-> rt.err, bits |-> {}]
        ELSE IF ~ro.ok THEN [ok |-> FALSE, err |-> ro.err, bits |-> {}]
        ELSE [ok |-> TRUE, err |-> "", bits |-> BitsOf(rt.val) \cup (IF ro.val THEN {6} ELSE {})]

kc_map_region(st, cap) ==
    LET value == cap.value.list
        bad == {i \in 1..Len(value) : ~RegionRead(value[i]).ok}
        first == CHOOSE i \in bad : \A j \in bad : i <= j
    IN  IF ~(Len(value) <= MaxMapRegions)
        THEN KcFail(st, "map_region can have a maximum of 3 regions")
        ELSE IF bad # {} THEN KcFail(st, RegionRead(value[first]).err)
        ELSE KcEmit(st, Ones(10) \cup
                 UNION {Shl(RegionRead(value[i]).bits, 11 + 7 * (i - 1)) : i \in 1..Len(value)})

\* One slot of an irq_pair.  A slot that is not None is never read: the branch tests
\* and converts the local `data` and range-checks the local `val`, which only the
\* syscalls loop assigns; both are unbound (UnboundLocalError) until a syscalls entry
\* with at least one value has been encoded.
IrqSlot(st, irq) ==
    IF irq = Null THEN [ok |-> TRUE, err |-> "", val |-> IrqNone]
    ELSE IF st.data = Unbound THEN [ok |-> FALSE, err |-> "UnboundLocalError", val |-> 0]
    ELSE LET c == to_int(st.data)
         IN  IF ~c.ok THEN c
             ELSE IF ~(0 <= st.val /\ st.val <= 1023)
             THEN [ok |-> FALSE, err |-> "irq_pair values must be between", val |-> 0]
             ELSE c

kc_irq_pair(st, cap) ==
    LET value == cap.value.list
        bad == {i \in 1..Len(value) : ~IrqSlot(st, value[i]).ok}
        first == CHOOSE i \in bad : \A j \in bad : i <= j
    IN  IF Len(value) # IrqPairLen THEN KcFail(st, "irq_pair must contain 2 elements")
        ELSE IF bad # {} THEN KcFail(st, IrqSlot(st, value[first]).err)
        ELSE KcEmit(st, Ones(11) \cup
                 UNION {Shl(BitsOf(IrqSlot(st, value[i]).val), 11 + (i - 1) * 10)
                            : i \in 1..Len(value)})

kc_application_type(st, cap) ==
    LET value == json_read_int(cap.value, 0, 2, JInt(0))
    IN  IF ~value.ok THEN KcFail(st, value.err)
        ELSE KcEmit(st, Ones(13) \cup Shl(BitsOf(value.val), 14))

kc_min_kernel_version(st, cap) ==
    LET value == json_read_u16(cap.value, NoDefault)
    IN  IF ~value.ok THEN KcFail(st, value.err)
        ELSE KcEmit(st, Ones(14) \cup Shl(BitsOf(value.val), 15))

kc_handle_table_size(st, cap) ==
    LET value == json_read_int(cap.value, 0, 2^10 - 1, NoDefault)
    IN  IF ~value.ok THEN KcFail(st, value.err)
        ELSE KcEmit(st, Ones(15) \cup Shl(BitsOf(value.val), 16))

\* The sum that leaves force_debug_prod out.
BoolSum_two(a, b, c) == (IF a THEN 1 ELSE 0) + (IF b THEN 1 ELSE 0)

\* allow_debug + force_debug + force_debug_prod, the booleans added as 0 / 1.
BoolSum(a, b, c) == (IF a THEN 1 ELSE 0) + (IF b THEN 1 ELSE 0) + (IF c THEN 1 ELSE 0)

kc_debug_flags(st, cap) ==
    LET value == cap.value
        allow_debug == json_read_bool(value.allow_debug, "false")
        force_debug == json_read_bool(value.force_debug, "false")
        force_debug_prod == json_read_bool(value.force_debug_prod, "false")
    IN  IF ~allow_debug.ok THEN KcFail(st, allow_debug.err)
        ELSE IF ~force_debug.ok THEN KcFail(st, force_debug.err)
        ELSE IF ~force_debug_prod.ok THEN KcFail(st, force_debug_prod.err)
        ELSE IF ~(BoolSum(allow_debug.val, force_debug.val, force_debug_prod.val) <= 1)
        THEN KcFail(st, "only one of allow_debug, force_debug, or force_debug_prod can be set")
        ELSE KcEmit(st, Ones(16) \cup (IF allow_debug.val THEN {17} ELSE {})
                        \cup (IF force_debug_prod.val THEN {18} ELSE {})
                        \cup (IF force_debug.val THEN {19} ELSE {}))

\* The count check with <= for <.
kc_count_ok_le(idx) == idx <= MaxKernelCaps

\* The abort_unless on cap_idx at the head of the loop body.
kc_count_ok(idx) == idx < MaxKernelCaps

\* One iteration of `for cap_idx, cap in enumerate(kernel_caps)`; idx counts from 0.
kc_entry(st, idx, cap) ==
    IF ~kc_count_ok(idx) THEN KcFail(st, "too many kernel capabilities (max = 32)")
    ELSE CASE cap.type = "kernel_flags" -> kc_kernel_flags(st, cap)
           [] cap.type = "syscalls" -> kc_syscalls(st, cap)
           [] cap.type = "map" -> kc_map(st, cap)
           [] cap.type = "map_page" -> kc_map_page(st, cap)
           [] cap.type = "map_region" -> kc_map_region(st, cap)
           [] cap.type = "irq_pair" -> kc_irq_pair(st, cap)
           [] cap.type = "application_type" -> kc_application_type(st, cap)
           [] cap.type = "min_kernel_version" -> kc_min_kernel_version(st, cap)
           [] cap.type = "handle_table_size" -> kc_handle_table_size(st, cap)
           [] cap.type = "debug_flags" -> kc_debug_flags(st, cap)
           [] OTHER -> KcFail(st, "unrecognised kernel capability type")

----------------------------------------------------------------------------
(* write_meta, write_acid, write_aci: the three sections *)

MagicMETA == <<77, 69, 84, 65>>
MagicACID == <<65, 67, 73, 68>>
MagicACI0 == <<65, 67, 73, 48>>

Res(ok, msg, w) == [ok |-> ok, err |-> msg, writer |-> w]

StackAlignMask == 4095
MaxSystemResourceSize == 534773760
NameMaxLen == 16

\* The alignment test with the mask taken for the modulus.
stack_aligned_mod_mask(size) == size % StackAlignMask = 0

\* main_thread_stack_size & 0xfff == 0
stack_aligned(size) == size % (StackAlignMask + 1) = 0

\* The attribute byte of Meta (the local `cap` of write_meta).
meta_flags(is64, ast, oma, ddasm, eares, pcr) ==
    (IF is64 THEN {0} ELSE {}) \cup Shl(BitsOf(ast), 1) \cup (IF oma THEN {4} ELSE {})
    \cup (IF ddasm THEN {5} ELSE {}) \cup (IF eares THEN {6} ELSE {})
    \cup (IF pcr THEN {7} ELSE {})

\* Every write happens after the reads before it in the source, so a rejected field
\* leaves in the sink what the lines above it wrote.

\* write_meta up to writer.seek(0xe): magic, signature key generation, flags.
meta_head(c) ==
    LET w0 == write_string(NewWriter, MagicMETA)
        skg == json_read_wide(c.signature_key_generation, JInt(0))
        w1 == seek_rel(write_u32(w0, BitsOf(skg.val)), 4)
        is64 == json_read_bool(c.is_64_bit, "none")
        ast == json_read_int(c.address_space_type, 0, 3, NoDefault)
        oma == json_read_bool(c.optimize_memory_allocation, "false")
        ddasm == json_read_bool(c.disable_device_address_space_merge, "false")
        eares == json_read_bool(c.enable_alias_region_extra_size, "false")
        pcr == json_read_bool(c.prevent_code_reads, "false")
        w2 == seek(write_u8(w1, meta_flags(is64.val, ast.val, oma.val, ddasm.val,
                                           eares.val, pcr.val)), 14)
    IN  IF ~skg.ok THEN Res(FALSE, skg.err, w0)
        ELSE IF ~is64.ok THEN Res(FALSE, is64.err, w1)
        ELSE IF ~ast.ok THEN Res(FALSE, ast.err, w1)
        ELSE IF ~oma.ok THEN Res(FALSE, oma.err, w1)
        ELSE IF ~ddasm.ok THEN Res(FALSE, ddasm.err, w1)
        ELSE IF ~eares.ok THEN Res(FALSE, eares.err, w1)
        ELSE IF ~pcr.ok THEN Res(FALSE, pcr.err, w1)
        ELSE Res(TRUE, "", w2)

\* write_meta from main_thread_priority to main_thread_stack_size.
meta_body(w, c) ==
    LET mtp == json_read_int(c.main_thread_priority, 0, 63, NoDefault)
        w3 == write_u8(w, BitsOf(mtp.val))
        dci == json_read_u8(c.default_cpu_id, NoDefault)
        w4 == seek(write_u8(w3, BitsOf(dci.val)), 20)
        srs == json_read_int(c.system_resource_size, 0, MaxSystemResourceSize, JInt(0))
        w5 == write_u32(w4, BitsOf(srs.val))
        ver == json_read_wide(c.version, JInt(0))
        w6 == write_u32(w5, BitsOf(ver.val))
        mtss == json_read_wide(c.main_thread_stack_size, NoDefault)
        w7 == write_u32(w6, BitsOf(mtss.val))
    IN  IF ~mtp.ok THEN Res(FALSE, mtp.err, w)
        ELSE IF ~dci.ok THEN Res(FALSE, dci.err, w3)
        ELSE IF ~srs.ok THEN Res(FALSE, srs.err, w4)
        ELSE IF ~ver.ok THEN Res(FALSE, ver.err, w5)
        ELSE IF ~mtss.ok THEN Res(FALSE, mtss.err, w6)
        ELSE IF ~stack_aligned(mtss.val)
        THEN Res(FALSE, "main_thread_stack_size must be aligned to 0x1000", w6)
        ELSE Res(TRUE, "", w7)

\* write_meta from the name to the end: name, product code, reserved, the tail.
meta_tail(w, c) ==
    LET name == json_read_str(c.name, NameMaxLen)
        w8 == write_string_max(w, name.val, NameMaxLen)
        w9 == seek_rel(seek_rel(write_bytes(w8, Zeros(16)), 48), 16)
    IN  IF ~name.ok THEN Res(FALSE, name.err, w)
        ELSE IF ~IsAscii(name.val) THEN Res(FALSE, "UnicodeEncodeError", w)
        ELSE Res(TRUE, "", w9)

write_meta(c) ==
    With(meta_head(c), LAMBDA h :
        IF ~h.ok THEN h
        ELSE With(meta_body(h.writer, c), LAMBDA b :
            IF ~b.ok THEN b ELSE meta_tail(b.writer, c)))

acid_flags(is_retail, unq, pool) ==
    (IF is_retail THEN {0} ELSE {}) \cup (IF unq THEN {1} ELSE {}) \cup Shl(BitsOf(pool), 2)

\* The six header fields written at 0x220 (Acid) / 0x20 (Aci).
write_table(w, off1, size1, off2, size2, off3, size3) ==
    write_u32(write_u32(write_u32(write_u32(write_u32(write_u32(w,
        BitsOf(off1)), BitsOf(size1)), BitsOf(off2)), BitsOf(size2)),
        BitsOf(off3)), BitsOf(size3))

\* write_acid up to writer.seek_rel(0x20): signature, public key, magic, flags, id range.
acid_head(c) ==
    LET w0 == write_bytes(write_bytes(NewWriter, Zeros(256)), Zeros(256))
        w1 == seek_rel(seek_rel(write_string(w0, MagicACID), 4), 4)
        is_retail == json_read_bool(c.is_retail, "none")
        unq == json_read_bool(c.unqualified_approval, "false")
        pool == json_read_int(c.pool_partition, 0, 3, NoDefault)
        w2 == write_u32(w1, acid_flags(is_retail.val, unq.val, pool.val))
        rmin == json_read_wide(c.program_id_range_min, NoDefault)
        w3 == write_u64(w2, BitsOf(rmin.val))
        rmax == json_read_wide(c.program_id_range_max, NoDefault)
        w4 == seek_rel(write_u64(w3, BitsOf(rmax.val)), 32)
    IN  IF ~is_retail.ok THEN Res(FALSE, is_retail.err, w1)
        ELSE IF ~unq.ok THEN Res(FALSE, unq.err, w1)
        ELSE IF ~pool.ok THEN Res(FALSE, pool.err, w1)
        ELSE IF ~rmin.ok THEN Res(FALSE, rmin.err, w2)
        ELSE IF ~rmax.ok THEN Res(FALSE, rmax.err, w3)
        ELSE Res(TRUE, "", w4)

\* ACID - Filesystem Access Control.
acid_fac(w, c) ==
    LET fs_permissions == json_read_wide(c.filesystem_access.permissions, NoDefault)
        fac_offset == w.position
        w5 == seek(write_u8(write_u8(write_u8(w, BitsOf(1)), {}), {}), fac_offset + 4)
    IN  IF ~fs_permissions.ok
        THEN [ok |-> FALSE, err |-> fs_permissions.err, writer |-> w,
              fac_offset |-> 0, fac_size |-> 0]
        ELSE With(write_u64(write_u64(write_u64(write_u64(
                      write_u64(w5, BitsOf(fs_permissions.val)), {}), {}), {}), {}),
                  LAMBDA w6 :
                      [ok |-> TRUE, err |-> "", writer |-> w6,
                       fac_offset |-> fac_offset, fac_size |-> w6.position - fac_offset])

\* acid_tables without the align before the kernel capabilities.
acid_tables_unaligned(w, sac, kc) ==
    With(align(w, 16), LAMBDA w7 :
    With(write_sub(seek(w7, w7.position), sac), LAMBDA w8 :
    With(write_sub(seek(w8, w8.position), kc), LAMBDA w9 :
        [writer |-> w9, sac_offset |-> w7.position, sac_size |-> Len(sac.stream),
         kc_offset |-> w8.position, kc_size |-> Len(kc.stream), size |-> w9.position])))

\* ACID - Service Access Control and Kernel Capabilities: the two shared blobs
\* written at 0x10-aligned offsets.
acid_tables(w, sac, kc) ==
    With(align(w, 16), LAMBDA w7 :
    With(align(write_sub(seek(w7, w7.position), sac), 16), LAMBDA w8 :
    With(write_sub(seek(w8, w8.position), kc), LAMBDA w9 :
        [writer |-> w9, sac_offset |-> w7.position, sac_size |-> Len(sac.stream),
         kc_offset |-> w8.position, kc_size |-> Len(kc.stream), size |-> w9.position])))

\* The backpatch of the Acid header: the size at 0x204, the table at 0x220.
acid_patch(w, f, t) ==
    write_table(seek(write_u32(seek(w, 516), BitsOf(t.size - 256)), 544),
                f.fac_offset, f.fac_size, t.sac_offset, t.sac_size,
                t.kc_offset, t.kc_size)

write_acid(c, sac, kc) ==
    With(acid_head(c), LAMBDA h :
        IF ~h.ok THEN h
        ELSE With(acid_fac(h.writer, c), LAMBDA f :
            IF ~f.ok THEN Res(FALSE, f.err, f.writer)
            ELSE With(acid_tables(f.writer, sac, kc), LAMBDA t :
                Res(TRUE, "", acid_patch(t.writer, f, t)))))

\* `for coi in content_owner_ids`
RECURSIVE coi_loop(_, _, _)
coi_loop(w, ids, i) ==
    IF i > Len(ids) THEN Res(TRUE, "", w)
    ELSE LET c == to_int(ids[i])
         IN  IF ~c.ok THEN Res(FALSE, c.err, w)
             ELSE IF ~(0 <= c.val)
             THEN Res(FALSE, "content_owner_ids entries must be between", w)
             ELSE coi_loop(write_u64(w, BitsOf(c.val)), ids, i + 1)

\* One save-data-owner record: json_read_int(accessibility, 1, 3), json_read_u64(id).
SdoiRead(sdoi) ==
    LET a == json_read_int(sdoi.accessibility, 1, 3, NoDefault)
        id == json_read_wide(sdoi.id, NoDefault)
    IN  IF ~a.ok THEN [ok |-> FALSE, err |-> a.err, accessibility |-> 0, id |-> 0]
        ELSE IF ~id.ok THEN [ok |-> FALSE, err |-> id.err, accessibility |-> 0, id |-> 0]
        ELSE [ok |-> TRUE, err |-> "", accessibility |-> a.val, id |-> id.val]

\* `for accessibility in sdoi_accessibilities: writer.write_u8(accessibility)`
RECURSIVE write_accessibilities(_, _, _)
write_accessibilities(w, xs, i) ==
    IF i > Len(xs) THEN w
    ELSE write_accessibilities(write_u8(w, BitsOf(SdoiRead(xs[i]).accessibility)), xs, i + 1)

\* `for id_ in sdoi_ids: writer.write_u64(id_)`
RECURSIVE write_ids(_, _, _)
write_ids(w, xs, i) ==
    IF i > Len(xs) THEN w
    ELSE write_ids(write_u64(w, BitsOf(SdoiRead(xs[i]).id)), xs, i + 1)

\* write_aci up to the filesystem access header's reserved offsets and sizes.
aci_head(c) ==
    LET fs_permissions == json_read_wide(c.filesystem_access.permissions, NoDefault)
        w0 == seek_rel(write_string(NewWriter, MagicACI0), 12)
        program_id == json_read_wide(c.program_id, NoDefault)
    IN  IF ~fs_permissions.ok
        THEN [ok |-> FALSE, err |-> fs_permissions.err, writer |-> NewWriter, fah_offset |-> 0]
        ELSE IF ~program_id.ok
        THEN [ok |-> FALSE, err |-> program_id.err, writer |-> w0, fah_offset |-> 0]
        ELSE With(seek_rel(seek_rel(write_u64(w0, BitsOf(program_id.val)), 8), 32),
                  LAMBDA w1 :
                      [ok |-> TRUE, err |-> "", fah_offset |-> w1.position,
                       writer |-> seek_rel(write_u64(write_u32(w1, BitsOf(1)),
                                                     BitsOf(fs_permissions.val)), 16)])

\* The content owner id sub-table with the count written for every list.
aci_coi_always_count(w, content_owner_ids) ==
    LET coi_offset == w.position
        w3 == write_u32(w, BitsOf(Len(content_owner_ids)))
    IN  With(coi_loop(w3, content_owner_ids, 1), LAMBDA r :
            [ok |-> r.ok, err |-> r.err, writer |-> r.writer,
             coi_offset |-> coi_offset, coi_size |-> r.writer.position - coi_offset])

\* The content owner id sub-table: a count only if the list is not empty, then the ids.
aci_coi(w, content_owner_ids) ==
    LET coi_offset == w.position
        w3 == IF Len(content_owner_ids) # 0
              THEN write_u32(w, BitsOf(Len(content_owner_ids))) ELSE w
    IN  With(coi_loop(w3, content_owner_ids, 1), LAMBDA r :
            [ok |-> r.ok, err |-> r.err, writer |-> r.writer,
             coi_offset |-> coi_offset, coi_size |-> r.writer.position - coi_offset])

\* The save data owner id sub-table: count, accessibilities, align(4), ids.
aci_sdoi(w, save_data_owner_ids) ==
    LET sdoi_offset == w.position
        w5 == IF Len(save_data_owner_ids) # 0
              THEN write_u32(w, BitsOf(Len(save_data_owner_ids))) ELSE w
        bad == {i \in 1..Len(save_data_owner_ids) : ~SdoiRead(save_data_owner_ids[i]).ok}
        first == CHOOSE i \in bad : \A j \in bad : i <= j
    IN  IF bad # {}
        THEN [ok |-> FALSE, err |-> SdoiRead(save_data_owner_ids[first]).err, writer |-> w5,
              sdoi_offset |-> sdoi_offset, sdoi_size |-> 0]
        ELSE With(write_ids(align(write_accessibilities(w5, save_data_owner_ids, 1), 4),
                            save_data_owner_ids, 1),
                  LAMBDA w6 :
                      [ok |-> TRUE, err |-> "", writer |-> w6,
                       sdoi_offset |-> sdoi_offset, sdoi_size |-> w6.position - sdoi_offset])

\* aci_tables with the sink aligned once more after the kernel capabilities.
aci_tables_padded(w, fah_offset, co, sd, sac, kc) ==
    LET fah_size == w.position - fah_offset
        w7 == write_u32(write_u32(write_u32(write_u32(seek(w, fah_offset + 12),
                  BitsOf(co.coi_offset - fah_offset)), BitsOf(co.coi_size)),
                  BitsOf(sd.sdoi_offset - fah_offset)), BitsOf(sd.sdoi_size))
    IN  With(align(seek(w7, fah_offset + fah_size), 16), LAMBDA w8 :
        With(align(write_sub(w8, sac), 16), LAMBDA w9 :
        With(align(write_sub(w9, kc), 16), LAMBDA w10 :
            [writer |-> w10, fah_offset |-> fah_offset, fah_size |-> fah_size,
             sac_offset |-> w8.position, sac_size |-> Len(sac.stream),
             kc_offset |-> w9.position, kc_size |-> Len(kc.stream),
             size |-> w10.position])))

\* The backpatch of the filesystem access header, then the two shared blobs at
\* 0x10-aligned offsets.
aci_tables(w, fah_offset, co, sd, sac, kc) ==
    LET fah_size == w.position - fah_offset
        w7 == write_u32(write_u32(write_u32(write_u32(seek(w, fah_offset + 12),
                  BitsOf(co.coi_offset - fah_offset)), BitsOf(co.coi_size)),
                  BitsOf(sd.sdoi_offset - fah_offset)), BitsOf(sd.sdoi_size))
    IN  With(align(seek(w7, fah_offset + fah_size), 16), LAMBDA w8 :
        With(align(write_sub(w8, sac), 16), LAMBDA w9 :
        With(write_sub(w9, kc), LAMBDA w10 :
            [writer |-> w10, fah_offset |-> fah_offset, fah_size |-> fah_size,
             sac_offset |-> w8.position, sac_size |-> Len(sac.stream),
             kc_offset |-> w9.position, kc_size |-> Len(kc.stream),
             size |-> w10.position])))

\* The backpatch of the Aci header: the table at 0x20.
aci_patch(w, t) ==
    write_table(seek(w, 32), t.fah_offset, t.fah_size, t.sac_offset, t.sac_size,
                t.kc_offset, t.kc_size)

write_aci(c, sac, kc) ==
    With(aci_head(c), LAMBDA h :
        IF ~h.ok THEN Res(FALSE, h.err, h.writer)
        ELSE With(aci_coi(h.writer, c.filesystem_access.content_owner_ids), LAMBDA co :
            IF ~co.ok THEN Res(FALSE, co.err, co.writer)
            ELSE With(aci_sdoi(co.writer, c.filesystem_access.save_data_owner_ids), LAMBDA sd :
                IF ~sd.ok THEN Res(FALSE, sd.err, sd.writer)
                ELSE With(aci_tables(sd.writer, h.fah_offset, co, sd, sac, kc), LAMBDA t :
                    Res(TRUE, "", aci_patch(t.writer, t))))))

----------------------------------------------------------------------------
(* The configurations the build is run on *)

\* Service names: "fsp-srv", "pm:shell", "hid", "a", the empty name, a 9-character name.
SvcFspSrv == <<102, 115, 112, 45, 115, 114, 118>>
SvcPmShell == <<112, 109, 58, 115, 104, 101, 108, 108>>
SvcHid == <<104, 105, 100>>
SvcA == <<97>>
SvcEmpty == <<>>
SvcNine == <<97, 98, 99, 100, 101, 102, 103, 104, 105>>

Cap(type, value) == [type |-> type, value |-> value]

JList(xs) == [list |-> xs]

BaseConfig ==
    [service_host |-> <<SvcFspSrv>>,
     service_access |-> <<SvcPmShell, SvcHid>>,
     kernel_capabilities |-> <<>>,
     signature_key_generation |-> Absent,
     is_64_bit |-> "true",
     address_space_type |-> JInt(1),
     optimize_memory_allocation |-> "absent",
     disable_device_address_space_merge |-> "absent",
     enable_alias_region_extra_size |-> "absent",
     prevent_code_reads |-> "absent",
     main_thread_priority |-> JInt(44),
     default_cpu_id |-> JInt(3),
     system_resource_size |-> Absent,
     version |-> JInt(1),
     main_thread_stack_size |-> JHex(<<1, 0, 0, 0>>),
     name |-> <<116, 101, 115, 116>>,
     is_retail |-> "true",
     unqualified_approval |-> "absent",
     pool_partition |-> JInt(2),
     program_id_range_min |-> JHex(<<1, 0, 0>>),
     program_id_range_max |-> JHex(<<1, 15, 15>>),
     program_id |-> JHex(<<1, 2, 3>>),
     filesystem_access |-> [permissions |-> JInt(1),
                            content_owner_ids |-> <<>>,
                            save_data_owner_ids |-> <<>>]]

\* All sequences of length at most n over the set S.
SeqsUpTo(S, n) == UNION {[1..k -> S] : k \in 0..n}

Repeat(x, n) == [i \in 1..n |-> x]

MaxServices == 2
MaxSyscalls == 2
MaxRegionsTried == 4
MaxLongList == 33
MaxBuildCaps == 2
MaxOwnerIds == 1

ServiceNames == {SvcFspSrv, SvcPmShell, SvcHid, SvcA, SvcEmpty, SvcNine}

SacConfigs ==
    {[BaseConfig EXCEPT !.service_host = h, !.service_access = a] :
        h \in SeqsUpTo(ServiceNames, MaxServices),
        a \in SeqsUpTo(ServiceNames, MaxServices)}

PrioVals == {JInt(0), JHex(<<3, 15>>), JInt(64)}
CpuVals == {JInt(0), JInt(255), JInt(256)}
KernelFlagsCaps ==
    {Cap("kernel_flags", [highest_thread_priority |-> a, lowest_thread_priority |-> b,
                          lowest_cpu_id |-> c, highest_cpu_id |-> d]) :
        a \in PrioVals, b \in PrioVals, c \in CpuVals, d \in CpuVals}

SyscallVals == {JInt(0), JInt(23), JHex(<<1, 7>>), JInt(24), JHex(<<11, 15>>),
                JInt(192), JInt(-1)}
SyscallsCaps ==
    {Cap("syscalls", JList(v)) : v \in SeqsUpTo(SyscallVals, MaxSyscalls)}
    \cup {Cap("syscalls", JList(<<JInt(0), JInt(23), JInt(24), JInt(191)>>)),
          Cap("syscalls", JList(<<JHex(<<11, 15>>), JInt(24), JHex(<<1, 7>>), JInt(0)>>)),
          Cap("syscalls", JList(<<JInt(0), JInt(23), JInt(24), JInt(191), JInt(23)>>))}

MapCaps ==
    {Cap("map", [address |-> a, is_ro |-> ro, size |-> sz, is_io |-> io]) :
        a \in {JInt(0), JInt(2^24 - 1), JInt(2^24)}, ro \in {"true", "false"},
        sz \in {JInt(1), JHex(<<15, 15, 15, 15, 15>>), JInt(2^20)}, io \in {"true", "false"}}

MapPageCaps == {Cap("map_page", v) : v \in {JInt(0), JInt(4096), JInt(2^24 - 1)}}

RegionPool == {[region_type |-> JInt(0), is_ro |-> "false"],
               [region_type |-> JInt(3), is_ro |-> "true"],
               [region_type |-> JHex(<<2>>), is_ro |-> "true"],
               [region_type |-> JInt(4), is_ro |-> "false"]}
MapRegionCaps == {Cap("map_region", JList(v)) : v \in SeqsUpTo(RegionPool, MaxRegionsTried)}

IrqVals == {Null, JInt(0), JInt(5), JInt(1023)}
IrqPairCaps == {Cap("irq_pair", JList(v)) : v \in UNION {[1..k -> IrqVals] : k \in 1..3}}
IrqPairs == {Cap("irq_pair", JList(v)) : v \in [1..2 -> IrqVals]}

ApplicationTypeCaps ==
    {Cap("application_type", v) : v \in {Absent, JInt(0), JInt(1), JInt(2), JInt(3)}}

MinKernelVersionCaps ==
    {Cap("min_kernel_version", v) :
        v \in {JInt(0), JInt(65535), JHex(<<3, 0, 0>>), JInt(65536)}}

HandleTableSizeCaps ==
    {Cap("handle_table_size", v) : v \in {JInt(0), JInt(1023), JHex(<<8, 0>>), JInt(1024)}}

BoolChoices == {"absent", "true", "false"}
DebugFlagsCaps ==
    {Cap("debug_flags", [allow_debug |-> a, force_debug |-> f, force_debug_prod |-> p]) :
        a \in BoolChoices, f \in BoolChoices, p \in BoolChoices}

UnknownCaps == {Cap("bogus", Absent)}

KcPool ==
    KernelFlagsCaps \cup SyscallsCaps \cup MapCaps \cup MapPageCaps \cup MapRegionCaps
    \cup IrqPairCaps \cup ApplicationTypeCaps \cup MinKernelVersionCaps
    \cup HandleTableSizeCaps \cup DebugFlagsCaps \cup UnknownCaps

\* One valid entry of each variant that the encoder accepts on its own.
SmallPool ==
    {Cap("kernel_flags", [highest_thread_priority |-> JInt(63), lowest_thread_priority |-> JInt(24),
                          lowest_cpu_id |-> JInt(0), highest_cpu_id |-> JInt(3)]),
     Cap("syscalls", JList(<<JInt(5), JInt(191)>>)),
     Cap("syscalls", JList(<<JHex(<<3>>)>>)),
     Cap("syscalls", JList(<<>>)),
     Cap("map", [address |-> JInt(4096), is_ro |-> "true", size |-> JInt(16), is_io |-> "false"]),
     Cap("map_region", JList(<<[region_type |-> JInt(1), is_ro |-> "true"]>>)),
     Cap("application_type", JInt(2)),
     Cap("min_kernel_version", JInt(48)),
     Cap("handle_table_size", JInt(512)),
     Cap("debug_flags", [allow_debug |-> "true", force_debug |-> "absent",
                         force_debug_prod |-> "false"])}

LongCaps == {Cap("handle_table_size", JInt(512)), Cap("syscalls", JList(<<JInt(0), JInt(24)>>))}

KcLists ==
    {<<e>> : e \in KcPool}
    \cup {<<a, b>> : a \in SmallPool, b \in SmallPool \cup IrqPairs}
    \cup {<<a, b>> : a \in IrqPairs, b \in SmallPool}
    \cup {Repeat(e, n) : e \in LongCaps, n \in (MaxKernelCaps - 1)..MaxLongList}

KcConfigs == {[BaseConfig EXCEPT !.kernel_capabilities = l] : l \in KcLists}

BuildCapPool ==
    {Cap("handle_table_size", JInt(512)),
     Cap("syscalls", JList(<<JInt(0), JInt(24), JInt(191)>>)),
     Cap("map", [address |-> JInt(4096), is_ro |-> "true", size |-> JInt(16), is_io |-> "false"]),
     Cap("debug_flags", [allow_debug |-> "true", force_debug |-> "true",
                         force_debug_prod |-> "absent"])}

BuildServices == {<<<<>>, <<>>>>, <<<<SvcFspSrv>>, <<SvcPmShell, SvcHid>>>>,
                  <<<<SvcA>>, <<SvcNine>>>>}

StackSizes == {JHex(<<1, 0, 0, 0>>), JInt(8192), JInt(4097), JHex(<<15, 15, 15>>)}

OwnerIds == {JInt(7)}
SaveDataOwners == {[accessibility |-> JInt(3), id |-> JHex(<<1, 0>>)]}

BuildConfigs ==
    {[BaseConfig EXCEPT !.service_host = sv[1], !.service_access = sv[2],
                        !.kernel_capabilities = kc,
                        !.main_thread_stack_size = ss,
                        !.filesystem_access = [permissions |-> JInt(1),
                                               content_owner_ids |-> co,
                                               save_data_owner_ids |-> sd]] :
        sv \in BuildServices, kc \in SeqsUpTo(BuildCapPool, MaxBuildCaps),
        ss \in StackSizes, co \in SeqsUpTo(OwnerIds, MaxOwnerIds),
        sd \in SeqsUpTo(SaveDataOwners, MaxOwnerIds)}

----------------------------------------------------------------------------
(* main *)

NoFile == [saved |-> FALSE, bytes |-> <<>>]

NoLayout == [meta_size |-> 0, acid_offset |-> 0, acid_size |-> 0,
             aci_offset |-> 0, aci_size |-> 0]

\* The state when main has loaded the configuration c and created its writer.
Start(c) ==
    /\ contents = c
    /\ pc = "sac"
    /\ err = ""
    /\ writer = NewWriter
    /\ sac_writer = NewWriter
    /\ kc_writer = NewWriter
    /\ meta_writer = NewWriter
    /\ acid_writer = NewWriter
    /\ aci_writer = NewWriter
    /\ cap_idx = 0
    /\ data = Unbound
    /\ val = -1
    /\ layout = NoLayout
    /\ outfile = NoFile

Init == \E c \in BuildConfigs : Start(c)

\* sac_writer = write_sac(contents)
MainSac ==
    /\ pc = "sac"
    /\ \E r \in {write_sac(contents)} :
           /\ sac_writer' = r.writer
           /\ pc' = IF r.ok THEN "kc" ELSE "failed"
           /\ err' = r.err
    /\ UNCHANGED <<contents, writer, kc_writer, meta_writer, acid_writer, aci_writer,
                   cap_idx, data, val, layout, outfile>>

\* One iteration of write_kc's loop over kernel_capabilities.
KcEntry ==
    /\ pc = "kc"
    /\ cap_idx < Len(contents.kernel_capabilities)
    /\ \E st \in {kc_entry(KcState(kc_writer, data, val), cap_idx,
                              contents.kernel_capabilities[cap_idx + 1])} :
           /\ kc_writer' = st.writer
           /\ data' = st.data
           /\ val' = st.val
           /\ cap_idx' = IF st.ok THEN cap_idx + 1 ELSE cap_idx
           /\ pc' = IF st.ok THEN "kc" ELSE "failed"
           /\ err' = st.err
    /\ UNCHANGED <<contents, writer, sac_writer, meta_writer, acid_writer, aci_writer,
                   layout, outfile>>

\* The loop is exhausted: write_kc returns its writer to main.
KcReturn ==
    /\ pc = "kc"
    /\ cap_idx = Len(contents.kernel_capabilities)
    /\ pc' = "meta"
    /\ UNCHANGED <<contents, err, writer, sac_writer, kc_writer, meta_writer, acid_writer,
                   aci_writer, cap_idx, data, val, layout, outfile>>

\* meta_writer = write_meta(contents); meta_size = ...; writer.write_sub(meta_writer)
MainMeta ==
    /\ pc = "meta"
    /\ \E r \in {write_meta(contents)} :
           /\ meta_writer' = r.writer
           /\ pc' = IF r.ok THEN "acid" ELSE "failed"
           /\ err' = r.err
           /\ layout' = IF r.ok THEN [layout EXCEPT !.meta_size = Len(r.writer.stream)]
                        ELSE layout
           /\ writer' = IF r.ok THEN write_sub(writer, r.writer) ELSE writer
    /\ UNCHANGED <<contents, sac_writer, kc_writer, acid_writer, aci_writer, cap_idx,
                   data, val, outfile>>

\* The ACID section of main: seek, align, write_acid, write_sub.
MainAcid ==
    /\ pc = "acid"
    /\ \E w1 \in {align(seek(writer, layout.meta_size), 16)},
          r \in {write_acid(contents, sac_writer, kc_writer)} :
           /\ acid_writer' = r.writer
           /\ pc' = IF r.ok THEN "aci" ELSE "failed"
           /\ err' = r.err
           /\ layout' = IF r.ok
                        THEN [layout EXCEPT !.acid_offset = w1.position,
                                            !.acid_size = Len(r.writer.stream)]
                        ELSE [layout EXCEPT !.acid_offset = w1.position]
           /\ writer' = IF r.ok THEN write_sub(w1, r.writer) ELSE w1
    /\ UNCHANGED <<contents, sac_writer, kc_writer, meta_writer, aci_writer, cap_idx,
                   data, val, outfile>>

\* The ACI section of main: align, write_aci, write_sub.
MainAci ==
    /\ pc = "aci"
    /\ \E w1 \in {align(writer, 16)},
          r \in {write_aci(contents, sac_writer, kc_writer)} :
           /\ aci_writer' = r.writer
           /\ pc' = IF r.ok THEN "patch" ELSE "failed"
           /\ err' = r.err
           /\ layout' = IF r.ok
                        THEN [layout EXCEPT !.aci_offset = w1.position,
                                            !.aci_size = Len(r.writer.stream)]
                        ELSE [layout EXCEPT !.aci_offset = w1.position]
           /\ writer' = IF r.ok THEN write_sub(w1, r.writer) ELSE w1
    /\ UNCHANGED <<contents, sac_writer, kc_writer, meta_writer, acid_writer, cap_idx,
                   data, val, outfile>>

\* The Meta tail written with the Acid pair before the Aci pair.
patch_meta_acid_first(w, lay) ==
    write_u32(write_u32(write_u32(write_u32(seek(w, 112),
        BitsOf(lay.acid_offset)), BitsOf(lay.acid_size)),
        BitsOf(lay.aci_offset)), BitsOf(lay.aci_size))

\* writer.seek(0x70) and the four write_u32 of the Meta tail.
patch_meta(w, lay) ==
    write_u32(write_u32(write_u32(write_u32(seek(w, 112),
        BitsOf(lay.aci_offset)), BitsOf(lay.aci_size)),
        BitsOf(lay.acid_offset)), BitsOf(lay.acid_size))

MainPatch ==
    /\ pc = "patch"
    /\ writer' = patch_meta(writer, layout)
    /\ pc' = "save"
    /\ UNCHANGED <<contents, err, sac_writer, kc_writer, meta_writer, acid_writer,
                   aci_writer, cap_idx, data, val, layout, outfile>>

\* writer.save(args.outfile)
MainSave ==
    /\ pc = "save"
    /\ outfile' = [saved |-> TRUE, bytes |-> writer.stream]
    /\ pc' = "done"
    /\ UNCHANGED <<contents, err, writer, sac_writer, kc_writer, meta_writer, acid_writer,
                   aci_writer, cap_idx, data, val, layout>>

Next ==
    \/ MainSac
    \/ KcEntry
    \/ KcReturn
    \/ MainMeta
    \/ MainAcid
    \/ MainAci
    \/ MainPatch
    \/ MainSave

Spec == Init /\ [][Next]_vars

\* write_sac applied to every pair of service lists.
InitSac == \E c \in SacConfigs : Start(c)

NextSac == MainSac

SpecSac == InitSac /\ [][NextSac]_vars

\* write_kc applied to every capability list: main has called write_sac on the base
\* services and enters write_kc.
InitKc ==
    \E c \in KcConfigs :
        /\ contents = c
        /\ pc = "kc"
        /\ err = ""
        /\ writer = NewWriter
        /\ sac_writer = write_sac(c).writer
        /\ kc_writer = NewWriter
        /\ meta_writer = NewWriter
        /\ acid_writer = NewWriter
        /\ aci_writer = NewWriter
        /\ cap_idx = 0
        /\ data = Unbound
        /\ val = -1
        /\ layout = NoLayout
        /\ outfile = NoFile

NextKc ==
    \/ KcEntry
    \/ KcReturn

SpecKc == InitKc /\ [][NextKc]_vars

\* Configurations with a rejected field in each of the five encoders, alone and
\* together, and without any.
AbortServices == {<<<<SvcFspSrv>>, <<SvcHid>>>>, <<<<SvcNine>>, <<SvcHid>>>>,
                  <<<<SvcFspSrv>>, <<SvcEmpty>>>>}

AbortCaps ==
    {<<>>,
     <<Cap("handle_table_size", JInt(512))>>,
     <<Cap("handle_table_size", JInt(512)),
       Cap("debug_flags", [allow_debug |-> "true", force_debug |-> "true",
                           force_debug_prod |-> "absent"])>>,
     <<Cap("map", [address |-> JInt(4096), is_ro |-> "true", size |-> JInt(2^20),
                   is_io |-> "false"]),
       Cap("handle_table_size", JInt(512))>>}

AbortConfigs ==
    {[BaseConfig EXCEPT !.service_host = sv[1], !.service_access = sv[2],
                        !.kernel_capabilities = kc,
                        !.main_thread_stack_size = ss,
                        !.pool_partition = pp,
                        !.program_id = id,
                        !.filesystem_access = [permissions |-> JInt(1),
                                               content_owner_ids |-> <<>>,
                                               save_data_owner_ids |-> sd]] :
        sv \in AbortServices, kc \in AbortCaps,
        ss \in {JHex(<<1, 0, 0, 0>>), JInt(4097)},
        pp \in {JInt(2), JInt(4)},
        id \in {JHex(<<1, 2, 3>>), Absent},
        sd \in {<<>>, <<[accessibility |-> JInt(0), id |-> JInt(1)]>>}}

InitAbort == \E c \in AbortConfigs : Start(c)

SpecAbort == InitAbort /\ [][Next]_vars

\* A BinaryWriter on its own: any sequence of write, seek, seek_rel and align that
\* keeps the cursor non-negative and the stream within MaxSinkLen bytes.
MaxSinkLen == 5
MaxRawLen == 2

SinkBytes == {1, 255}

SinkAlignments == {1, 2, 4}

SinkOthersUnchanged ==
    UNCHANGED <<contents, pc, err, sac_writer, kc_writer, meta_writer, acid_writer,
                aci_writer, cap_idx, data, val, layout, outfile>>

InitSink ==
    /\ contents = BaseConfig
    /\ pc = "sink"
    /\ err = ""
    /\ writer = NewWriter
    /\ sac_writer = NewWriter
    /\ kc_writer = NewWriter
    /\ meta_writer = NewWriter
    /\ acid_writer = NewWriter
    /\ aci_writer = NewWriter
    /\ cap_idx = 0
    /\ data = Unbound
    /\ val = -1
    /\ layout = NoLayout
    /\ outfile = NoFile

SinkWrite ==
    /\ pc = "sink"
    /\ \E raw \in SeqsUpTo(SinkBytes, MaxRawLen) :
           \E w2 \in {write(writer, raw)} :
               /\ Len(w2.stream) <= MaxSinkLen
               /\ writer' = w2
    /\ SinkOthersUnchanged

SinkSeek ==
    /\ pc = "sink"
    /\ \E offset \in 0..MaxSinkLen : writer' = seek(writer, offset)
    /\ SinkOthersUnchanged

SinkSeekRel ==
    /\ pc = "sink"
    /\ \E offset \in (-MaxSinkLen)..MaxSinkLen :
           /\ 0 <= writer.position + offset
           /\ writer.position + offset <= MaxSinkLen
           /\ writer' = seek_rel(writer, offset)
    /\ SinkOthersUnchanged

SinkAlign ==
    /\ pc = "sink"
    /\ \E alignment \in SinkAlignments :
           \E w2 \in {align(writer, alignment)} :
               /\ Len(w2.stream) <= MaxSinkLen
               /\ writer' = w2
    /\ SinkOthersUnchanged

NextSink ==
    \/ SinkWrite
    \/ SinkSeek
    \/ SinkSeekRel
    \/ SinkAlign

SpecSink == InitSink /\ [][NextSink]_vars

----------------------------------------------------------------------------
(* Reading the output back *)

\* The 32-bit little-endian word at byte offset off of a stream, as its set of bits.
WordBits(s, off) == {i \in 0..31 : (s[off + (i \div 8) + 1] \div (2^(i % 8))) % 2 = 1}

\* A stream of whole words as the sequence of their bit sets.
Words(s) == [k \in 1..(Len(s) \div 4) |-> WordBits(s, 4 * (k - 1))]

\* The number held by the width bits of a word from bit pos upwards.
RECURSIVE Field(_, _, _)
Field(bits, pos, width) ==
    IF width = 0 THEN 0
    ELSE (IF pos \in bits THEN 1 ELSE 0) + 2 * Field(bits, pos + 1, width - 1)

\* The number of one-bits below the lowest zero bit.
TrailingOnes(bits) == CHOOSE n \in 0..32 : (0..(n - 1)) \subseteq bits /\ n \notin bits

\* A little-endian 32-bit field of a stream that is below 2^31.
read_u32(s, off) == Field(WordBits(s, off), 0, 31)

\* The first multiple of alignment that is >= n.
AlignUp(n, alignment) == ((n + alignment - 1) \div alignment) * alignment

\* The value of a JSON number.
Num(x) == to_int(x).val

IsNum(x) == x.t = "int" \/ (x.t = "str" /\ x.s # <<>>)

InRange(x, lo, hi) == IsNum(x) /\ lo <= Num(x) /\ Num(x) <= hi

----------------------------------------------------------------------------
(* The layout of the assembled file *)

\* The Meta region: the tail at 0x70 and its four 32-bit fields.
MetaSize == 112 + 4 * 4

\* The bytes of the file from offset off, size of them.
FileRange(off, size) == SubSeq(outfile.bytes, off + 1, off + size)

\* The four fields of the Meta tail as the file holds them.
TailAciOffset == read_u32(outfile.bytes, 112)
TailAciSize == read_u32(outfile.bytes, 116)
TailAcidOffset == read_u32(outfile.bytes, 120)
TailAcidSize == read_u32(outfile.bytes, 124)

\* C1: in every file the build saves, the Acid region starts at the first
\* 0x10-aligned offset at or after the end of the 0x80-byte Meta region, the Aci
\* region at the first 0x10-aligned offset at or after the end of the Acid region,
\* and the little-endian fields at 0x70, 0x74, 0x78, 0x7C hold the Aci offset, the
\* Aci size, the Acid offset and the Acid size, each the start and the length of
\* the range of the file that holds the bytes write_acid / write_aci returned.
C1_LayoutAndTail ==
    pc = "done" =>
        /\ outfile.saved
        /\ Len(meta_writer.stream) = MetaSize
        /\ TailAcidOffset = AlignUp(MetaSize, 16)
        /\ TailAcidSize = Len(acid_writer.stream)
        /\ FileRange(TailAcidOffset, TailAcidSize) = acid_writer.stream
        /\ TailAciOffset = AlignUp(TailAcidOffset + TailAcidSize, 16)
        /\ TailAciSize = Len(aci_writer.stream)
        /\ FileRange(TailAciOffset, TailAciSize) = aci_writer.stream
        /\ Len(outfile.bytes) = TailAciOffset + TailAciSize

\* A saved file whose Acid section does not end on a 0x10 boundary, so that the
\* Aci offset is the Acid end rounded up, with tables of all three kinds filled.
C1_Witness ==
    /\ pc = "done"
    /\ Len(acid_writer.stream) % 16 # 0
    /\ TailAciOffset > TailAcidOffset + TailAcidSize
    /\ Len(sac_writer.stream) > 0
    /\ Len(kc_writer.stream) > 0

\* C2 as the specification states it: the saved file's length beyond the 0x80-byte
\* Meta region is a multiple of 0x10.
C2_LengthAligned == pc = "done" => (Len(outfile.bytes) - MetaSize) % 16 = 0

\* C2, amended: the saved file ends with the kernel capability words of the Aci
\* section, which start on a 0x10 boundary and are not padded, so its length beyond
\* the Meta region is congruent modulo 0x10 to four times the number of words.
C2_LengthModWords ==
    pc = "done" =>
        (Len(outfile.bytes) - MetaSize) % 16 = (4 * Len(Words(kc_writer.stream))) % 16

\* A saved file with a number of capability words that is no multiple of four.
C2_Witness ==
    /\ pc = "done"
    /\ Len(Words(kc_writer.stream)) % 4 # 0
    /\ (Len(outfile.bytes) - MetaSize) % 16 # 0

----------------------------------------------------------------------------
(* The service access control table *)

ValidService(service) == 1 <= Len(service) /\ Len(service) <= 8 /\ IsAscii(service)

ValidServices(services) == \A i \in 1..Len(services) : ValidService(services[i])

\* The table the format prescribes for one list: per name a length byte, then the name.
RECURSIVE SacExpected(_, _)
SacExpected(services, flag) ==
    IF services = <<>> THEN <<>>
    ELSE <<flag + (Len(Head(services)) - 1)>> \o Head(services)
         \o SacExpected(Tail(services), flag)

RECURSIVE SacLength(_)
SacLength(services) ==
    IF services = <<>> THEN 0 ELSE 1 + Len(Head(services)) + SacLength(Tail(services))

\* The records read back from a table: the length byte gives the name's length and,
\* by its high bit, the list.  A record that overruns the table ends the reading
\* with a record of an empty name.
RECURSIVE SacDecode(_)
SacDecode(s) ==
    IF s = <<>> THEN <<>>
    ELSE LET n == (s[1] % 128) + 1
         IN  IF 1 + n > Len(s) THEN <<[hosted |-> s[1] >= 128, name |-> <<>>]>>
             ELSE <<[hosted |-> s[1] >= 128, name |-> SubSeq(s, 2, 1 + n)]>>
                  \o SacDecode(SubSeq(s, 2 + n, Len(s)))

\* The records a pair of lists stands for: the hosted names, then the accessible ones.
SacRecords(hosted, accessible) ==
    [i \in 1..Len(hosted) |-> [hosted |-> TRUE, name |-> hosted[i]]]
    \o [i \in 1..Len(accessible) |-> [hosted |-> FALSE, name |-> accessible[i]]]

\* C7: for lists of names of 1 to 8 ASCII characters write_sac succeeds and its sink
\* holds, for each hosted name in order, the byte 0x80 | (length - 1) and the name,
\* then for each accessible name in order the byte length - 1 and the name, nothing
\* else: its length is the sum of 1 + length over the names, and reading the
\* records back gives the two lists.
C7_SacTable ==
    (pc # "sac" /\ ValidServices(contents.service_host)
                /\ ValidServices(contents.service_access)) =>
        /\ pc = "kc"
        /\ sac_writer.stream = SacExpected(contents.service_host, 128)
                               \o SacExpected(contents.service_access, 0)
        /\ Len(sac_writer.stream) = SacLength(contents.service_host)
                                    + SacLength(contents.service_access)
        /\ sac_writer.position = Len(sac_writer.stream)
        /\ SacDecode(sac_writer.stream)
               = SacRecords(contents.service_host, contents.service_access)

\* The table of the hosted name fsp-srv and the accessible names pm:shell and hid:
\* 0x86 'fsp-srv' 0x07 'pm:shell' 0x02 'hid'.
C7_Witness ==
    /\ pc = "kc"
    /\ contents.service_host = <<SvcFspSrv>>
    /\ contents.service_access = <<SvcPmShell, SvcHid>>
    /\ sac_writer.stream = <<134>> \o SvcFspSrv \o <<7>> \o SvcPmShell \o <<2>> \o SvcHid

----------------------------------------------------------------------------
(* One capability entry and the words it emits *)

\* A step of write_kc's loop starts here, on one of the first 32 entries: the entry
\* it encodes is CurEntry.
EntryStep ==
    pc = "kc" /\ cap_idx < Len(contents.kernel_capabilities) /\ cap_idx < MaxKernelCaps

CurEntry == contents.kernel_capabilities[cap_idx + 1]

\* The step encoded its entry without failure.
Accepted == pc' = "kc"

\* The words the step appended to write_kc's sink.
Emitted ==
    SubSeq(Words(kc_writer'.stream), (Len(kc_writer.stream) \div 4) + 1,
           Len(kc_writer'.stream) \div 4)

IsBool(b) == b \in {"true", "false"}

\* How many of the three debug flags are true, an absent flag counting as false.
TrueFlags(value) ==
    Cardinality({k \in {"allow_debug", "force_debug", "force_debug_prod"} :
                    value[k] = "true"})

\* The entry's fields are within the ranges declared for its variant.
EntryValid(cap) ==
    CASE cap.type = "kernel_flags" ->
             /\ InRange(cap.value.highest_thread_priority, 0, 63)
             /\ InRange(cap.value.lowest_thread_priority, 0, 63)
             /\ InRange(cap.value.lowest_cpu_id, 0, 255)
             /\ InRange(cap.value.highest_cpu_id, 0, 255)
      [] cap.type = "syscalls" ->
             \A i \in 1..Len(cap.value.list) : InRange(cap.value.list[i], 0, 191)
      [] cap.type = "map" ->
             /\ InRange(cap.value.address, 0, 2^24 - 1) /\ IsBool(cap.value.is_ro)
             /\ InRange(cap.value.size, 0, 2^20 - 1) /\ IsBool(cap.value.is_io)
      [] cap.type = "map_page" -> InRange(cap.value, 0, 2^24 - 1)
      [] cap.type = "map_region" ->
             /\ Len(cap.value.list) <= 3
             /\ \A i \in 1..Len(cap.value.list) :
                    /\ InRange(cap.value.list[i].region_type, 0, 3)
                    /\ IsBool(cap.value.list[i].is_ro)
      [] cap.type = "irq_pair" ->
             /\ Len(cap.value.list) = 2
             /\ \A i \in 1..2 : cap.value.list[i] = Null \/ InRange(cap.value.list[i], 0, 1023)
      [] cap.type = "application_type" -> cap.value = Absent \/ InRange(cap.value, 0, 2)
      [] cap.type = "min_kernel_version" -> InRange(cap.value, 0, 65535)
      [] cap.type = "handle_table_size" -> InRange(cap.value, 0, 1023)
      [] cap.type = "debug_flags" -> TrueFlags(cap.value) <= 1
      [] OTHER -> FALSE

\* The syscall numbers an entry grants, and those its words grant.
SyscallNumbers(cap) == {Num(cap.value.list[i]) : i \in 1..Len(cap.value.list)}

Bitmap(w) == {i \in 0..23 : (5 + i) \in w}

GroupIndex(w) == Field(w, 29, 3)

GrantedBy(ws) == UNION {{24 * GroupIndex(ws[k]) + i : i \in Bitmap(ws[k])} : k \in 1..Len(ws)}

\* Reading the payload of the words ws at the documented positions and widths
\* gives the fields of the entry cap.
Decodes(cap, ws) ==
    CASE cap.type = "kernel_flags" ->
             /\ Len(ws) = 1
             /\ Field(ws[1], 4, 6) = Num(cap.value.highest_thread_priority)
             /\ Field(ws[1], 10, 6) = Num(cap.value.lowest_thread_priority)
             /\ Field(ws[1], 16, 8) = Num(cap.value.lowest_cpu_id)
             /\ Field(ws[1], 24, 8) = Num(cap.value.highest_cpu_id)
      [] cap.type = "syscalls" -> GrantedBy(ws) = SyscallNumbers(cap)
      [] cap.type = "map" ->
             /\ Len(ws) = 2
             /\ Field(ws[1], 7, 24) = Num(cap.value.address)
             /\ (31 \in ws[1]) = (cap.value.is_ro = "true")
             /\ Field(ws[2], 7, 20) = Num(cap.value.size)
             /\ (31 \in ws[2]) = (cap.value.is_io = "true")
      [] cap.type = "map_page" ->
             /\ Len(ws) = 1
             /\ Field(ws[1], 8, 24) = Num(cap.value)
      [] cap.type = "map_region" ->
             /\ Len(ws) = 1
             /\ \A i \in 1..Len(cap.value.list) :
                    /\ Field(ws[1], 11 + 7 * (i - 1), 2) = Num(cap.value.list[i].region_type)
                    /\ ((17 + 7 * (i - 1)) \in ws[1]) = (cap.value.list[i].is_ro = "true")
      [] cap.type = "irq_pair" ->
             /\ Len(ws) = 1
             /\ \A i \in 1..2 :
                    Field(ws[1], 11 + 10 * (i - 1), 10)
                        = IF cap.value.list[i] = Null THEN 1023 ELSE Num(cap.value.list[i])
      [] cap.type = "application_type" ->
             /\ Len(ws) = 1
             /\ Field(ws[1], 14, 3) = IF cap.value = Absent THEN 0 ELSE Num(cap.value)
      [] cap.type = "min_kernel_version" ->
             /\ Len(ws) = 1
             /\ Field(ws[1], 15, 16) = Num(cap.value)
      [] cap.type = "handle_table_size" ->
             /\ Len(ws) = 1
             /\ Field(ws[1], 16, 10) = Num(cap.value)
      [] cap.type = "debug_flags" ->
             /\ Len(ws) = 1
             /\ (17 \in ws[1]) = (cap.value.allow_debug = "true")
             /\ (18 \in ws[1]) = (cap.value.force_debug_prod = "true")
             /\ (19 \in ws[1]) = (cap.value.force_debug = "true")
      [] OTHER -> FALSE

\* C3: every entry whose fields are within their declared ranges is encoded without
\* failure, and reading the payload bits of the words it emits at the documented
\* positions and widths gives back the entry's field values, for all ten variants
\* (the numbers of irq_pair slots and the map_page address included).
C3_RoundTrip ==
    [][(EntryStep /\ EntryValid(CurEntry)) => (Accepted /\ Decodes(CurEntry, Emitted))]_vars

\* The tag width of a variant.
TagWidth(type) ==
    CASE type = "kernel_flags" -> 3
      [] type = "syscalls" -> 4
      [] type = "map" -> 6
      [] type = "map_page" -> 7
      [] type = "map_region" -> 10
      [] type = "irq_pair" -> 11
      [] type = "application_type" -> 13
      [] type = "min_kernel_version" -> 14
      [] type = "handle_table_size" -> 15
      [] type = "debug_flags" -> 16

\* C4: every word emitted for a valid entry has as its lowest bits exactly W
\* one-bits followed by a zero bit, W the tag width of the entry's variant, so the
\* count of trailing one-bits identifies the variant whatever the payload.
C4_UnaryTag ==
    [][(EntryStep /\ EntryValid(CurEntry)) =>
           \A k \in 1..Len(Emitted) : TrailingOnes(Emitted[k]) = TagWidth(CurEntry.type)]_vars

----------------------------------------------------------------------------
(* syscalls entries *)

SyscallsEntry(cap) ==
    cap.type = "syscalls" /\ \A i \in 1..Len(cap.value.list) : IsNum(cap.value.list[i])

\* The entry grants exactly the numbers 0, 23, 24 and 191.
GrantsExample(cap) == SyscallsEntry(cap) /\ SyscallNumbers(cap) = {0, 23, 24, 191}

\* C5 as the specification states it: the entry granting {0, 23, 24, 191} encodes
\* into exactly two words, group 0 with bits 0 and 23 and group 7 with bit 23.
C5_TwoWords ==
    [][(EntryStep /\ GrantsExample(CurEntry)) =>
           /\ Accepted
           /\ Len(Emitted) = 2
           /\ GroupIndex(Emitted[1]) = 0 /\ Bitmap(Emitted[1]) = {0, 23}
           /\ GroupIndex(Emitted[2]) = 7 /\ Bitmap(Emitted[2]) = {23}]_vars

\* C5, amended: the entry granting {0, 23, 24, 191} encodes into exactly three
\* words, in this order: group 0 with bits 0 and 23, group 1 with bit 0 (syscall
\* 24 = 1 * 24 + 0) and group 7 with bit 23.
C5_ThreeWords ==
    [][(EntryStep /\ GrantsExample(CurEntry)) =>
           /\ Accepted
           /\ Len(Emitted) = 3
           /\ GroupIndex(Emitted[1]) = 0 /\ Bitmap(Emitted[1]) = {0, 23}
           /\ GroupIndex(Emitted[2]) = 1 /\ Bitmap(Emitted[2]) = {0}
           /\ GroupIndex(Emitted[3]) = 7 /\ Bitmap(Emitted[3]) = {23}
           /\ \A k \in 1..3 : TrailingOnes(Emitted[k]) = 4]_vars

\* write_kc has encoded a first entry that grants {0, 23, 24, 191}.
C5_Witness ==
    /\ pc \in {"kc", "meta"}
    /\ cap_idx = 1
    /\ GrantsExample(contents.kernel_capabilities[1])
    /\ Len(Words(kc_writer.stream)) = 3

AllInRange(cap) == \A i \in 1..Len(cap.value.list) : InRange(cap.value.list[i], 0, 191)

PairwiseDistinct(cap) ==
    \A i, j \in 1..Len(cap.value.list) :
        i # j => Num(cap.value.list[i]) # Num(cap.value.list[j])

\* C6 as the specification states it: a syscalls entry is encoded without failure
\* exactly when all its numbers are in [0, 0xBF] and pairwise distinct.
C6_RejectsDuplicates ==
    [][(EntryStep /\ SyscallsEntry(CurEntry)) =>
           (Accepted <=> (AllInRange(CurEntry) /\ PairwiseDistinct(CurEntry)))]_vars

\* C6, amended: a syscalls entry fails exactly when one of its numbers is outside
\* [0, 0xBF], with the range message and without emitting a word; a number supplied
\* more than once is accepted and sets its bit once, the words granting exactly the
\* set of numbers supplied.
C6_RejectsOutOfRange ==
    [][(EntryStep /\ SyscallsEntry(CurEntry)) =>
           /\ Accepted <=> AllInRange(CurEntry)
           /\ Accepted => GrantedBy(Emitted) = SyscallNumbers(CurEntry)
           /\ ~Accepted => /\ err' = "syscall values must be between 0 and 0xbf"
                           /\ Emitted = <<>>]_vars

\* write_kc has accepted a first entry that supplies one number twice.
C6_Witness ==
    /\ pc \in {"kc", "meta"}
    /\ cap_idx = 1
    /\ SyscallsEntry(contents.kernel_capabilities[1])
    /\ ~PairwiseDistinct(contents.kernel_capabilities[1])
    /\ Len(Words(kc_writer.stream)) = 1

----------------------------------------------------------------------------
(* The limit of 32 entries *)

TooMany == "too many kernel capabilities (max = 32)"

\* The list is one entry, valid on its own, repeated.
Repeated(caps) == Len(caps) > 0 /\ caps[1] \in LongCaps /\ \A i \in 1..Len(caps) : caps[i] = caps[1]

\* C8: a list of more than 32 entries makes the build fail, at its 33rd entry and
\* with the count message; a list of at most 32 valid entries is accepted; the
\* limit counts entries, not words, so 32 entries are encoded whatever the number
\* of words they emit.
C8_EntryLimit ==
    LET caps == contents.kernel_capabilities
    IN  /\ Len(caps) > MaxKernelCaps => pc # "meta"
        /\ (Repeated(caps) /\ Len(caps) > MaxKernelCaps /\ pc = "failed") =>
               err = TooMany /\ cap_idx = MaxKernelCaps
        /\ (Repeated(caps) /\ Len(caps) <= MaxKernelCaps) => pc # "failed"
        /\ err = TooMany => Len(caps) > MaxKernelCaps /\ cap_idx = MaxKernelCaps
        /\ (Repeated(caps) /\ cap_idx = MaxKernelCaps /\ caps[1].type = "syscalls") =>
               Len(Words(kc_writer.stream)) = 2 * MaxKernelCaps

\* A list of 33 entries rejected at the 33rd, after 32 entries that emitted 64 words.
C8_Witness ==
    /\ pc = "failed"
    /\ err = TooMany
    /\ Len(contents.kernel_capabilities) = MaxKernelCaps + 1
    /\ cap_idx = MaxKernelCaps
    /\ Len(Words(kc_writer.stream)) = 2 * MaxKernelCaps

----------------------------------------------------------------------------
(* debug_flags entries *)

OnlyOne == "only one of allow_debug, force_debug, or force_debug_prod can be set"

\* C9: a debug_flags entry is accepted exactly when at most one of allow_debug,
\* force_debug, force_debug_prod is true, absent flags counting as false; otherwise
\* the build fails and no word is emitted for it; the word of an accepted entry has
\* bit 17 set iff allow_debug, bit 18 iff force_debug_prod, bit 19 iff force_debug.
C9_DebugFlags ==
    [][(EntryStep /\ CurEntry.type = "debug_flags") =>
           /\ Accepted <=> TrueFlags(CurEntry.value) <= 1
           /\ ~Accepted => pc' = "failed" /\ err' = OnlyOne /\ Emitted = <<>>
           /\ Accepted =>
                  /\ Len(Emitted) = 1
                  /\ (17 \in Emitted[1]) = (CurEntry.value.allow_debug = "true")
                  /\ (18 \in Emitted[1]) = (CurEntry.value.force_debug_prod = "true")
                  /\ (19 \in Emitted[1]) = (CurEntry.value.force_debug = "true")
                  /\ TrailingOnes(Emitted[1]) = 16]_vars

\* An entry with allow_debug and force_debug_prod both true has been rejected.
C9_Witness ==
    /\ pc = "failed"
    /\ err = OnlyOne
    /\ contents.kernel_capabilities[cap_idx + 1].type = "debug_flags"
    /\ contents.kernel_capabilities[cap_idx + 1].value.allow_debug = "true"
    /\ contents.kernel_capabilities[cap_idx + 1].value.force_debug_prod = "true"
    /\ kc_writer.stream = <<>>

----------------------------------------------------------------------------
(* The stack size check *)

StackMsg == "main_thread_stack_size must be aligned to 0x1000"

\* The configured stack size is no multiple of 0x1000.
Misaligned == Num(contents.main_thread_stack_size) % 4096 # 0

\* C10 as the specification states it: when the check rejects the stack size, no
\* byte has been written to any byte sink of the build nor to the output.
C10_NothingWritten ==
    (pc = "failed" /\ err = StackMsg) =>
        /\ writer.stream = <<>>
        /\ sac_writer.stream = <<>>
        /\ kc_writer.stream = <<>>
        /\ meta_writer.stream = <<>>
        /\ acid_writer.stream = <<>>
        /\ aci_writer.stream = <<>>
        /\ ~outfile.saved

\* C10, amended: a stack size that is no multiple of 0x1000 makes the build fail in
\* write_meta, before any byte reaches main's writer, the Acid and Aci sinks or the
\* output file; the sink of write_meta holds the 0x1c bytes written before the
\* check, and the service and capability tables are complete in their sinks.
C10_RejectedBeforeOutput ==
    /\ Misaligned => pc \notin {"acid", "aci", "patch", "save", "done"}
    /\ (Misaligned /\ pc = "failed" /\ meta_writer.stream # <<>>) => err = StackMsg
    /\ (pc = "failed" /\ err = StackMsg) =>
           /\ Misaligned
           /\ writer.stream = <<>>
           /\ acid_writer.stream = <<>>
           /\ aci_writer.stream = <<>>
           /\ ~outfile.saved
           /\ Len(meta_writer.stream) = 28
           /\ sac_writer = write_sac(contents).writer
           /\ cap_idx = Len(contents.kernel_capabilities)

\* The stack size has been rejected with the service table and capability words
\* already in their sinks.
C10_Witness ==
    /\ pc = "failed"
    /\ err = StackMsg
    /\ Len(sac_writer.stream) > 0
    /\ Len(kc_writer.stream) > 0
    /\ Len(meta_writer.stream) > 0

----------------------------------------------------------------------------
(* The content owner id sub-table of the Aci region *)

\* write_aci has returned: main holds the finished Aci region.
AciBuilt == pc \in {"patch", "save", "done"}

\* The filesystem access header's offset as the Aci header records it, and the
\* content owner id sub-table's offset (relative to that header) and size as the
\* filesystem access header records them.
AciFahOffset == read_u32(aci_writer.stream, 32)
AciCoiOffset == AciFahOffset + read_u32(aci_writer.stream, AciFahOffset + 12)
AciCoiSize == read_u32(aci_writer.stream, AciFahOffset + 16)

\* The little-endian bytes of the ids, eight for each.
RECURSIVE IdBytes(_)
IdBytes(ids) ==
    IF ids = <<>> THEN <<>> ELSE pack(BitsOf(Num(Head(ids))), 8) \o IdBytes(Tail(ids))

\* C11: in the Aci region the content owner id sub-table of a list of n ids is 0
\* bytes with recorded size 0 if n = 0, and otherwise the 4-byte count n followed
\* by the n 8-byte ids with recorded size 4 + 8n; the save data owner id sub-table
\* starts right after it.
C11_OwnerIdTable ==
    AciBuilt =>
        LET ids == contents.filesystem_access.content_owner_ids
            n == Len(ids)
            table == SubSeq(aci_writer.stream, AciCoiOffset + 1, AciCoiOffset + AciCoiSize)
        IN  /\ AciCoiSize = IF n = 0 THEN 0 ELSE 4 + 8 * n
            /\ table = IF n = 0 THEN <<>> ELSE pack(BitsOf(n), 4) \o IdBytes(ids)
            /\ AciFahOffset + read_u32(aci_writer.stream, AciFahOffset + 20)
                   = AciCoiOffset + AciCoiSize

\* A finished Aci region for an empty list whose next sub-table is not empty: the
\* two sub-tables start at the same offset.
C11_Witness ==
    /\ AciBuilt
    /\ contents.filesystem_access.content_owner_ids = <<>>
    /\ contents.filesystem_access.save_data_owner_ids # <<>>
    /\ AciCoiSize = 0

----------------------------------------------------------------------------
(* Aborting the build *)

\* The fields of the configuration that each encoder rejects.
ServicesBad ==
    ~ValidServices(contents.service_host) \/ ~ValidServices(contents.service_access)

MetaBad == Misaligned

AcidBad == ~InRange(contents.pool_partition, 0, 3)

AciBad ==
    \/ contents.program_id = Absent
    \/ \E i \in 1..Len(contents.filesystem_access.save_data_owner_ids) :
           ~InRange(contents.filesystem_access.save_data_owner_ids[i].accessibility, 1, 3)

CapsBad ==
    \E i \in 1..Len(contents.kernel_capabilities) :
        ~EntryValid(contents.kernel_capabilities[i])

HasViolation == ServicesBad \/ CapsBad \/ MetaBad \/ AcidBad \/ AciBad

\* The saved bytes are main's writer: the Meta region with the patched tail, the
\* Acid region and the Aci region at the offsets of main's locals.
CompleteFile ==
    /\ outfile.bytes = writer.stream
    /\ SubSeq(outfile.bytes, 1, 112) = SubSeq(meta_writer.stream, 1, 112)
    /\ TailAciOffset = layout.aci_offset /\ TailAciSize = layout.aci_size
    /\ TailAcidOffset = layout.acid_offset /\ TailAcidSize = layout.acid_size
    /\ FileRange(layout.acid_offset, layout.acid_size) = acid_writer.stream
    /\ FileRange(layout.aci_offset, layout.aci_size) = aci_writer.stream
    /\ Len(outfile.bytes) = layout.aci_offset + layout.aci_size

\* C12: a step of the build fails exactly when the encoder (or capability entry)
\* it runs has a rejected field; a failed build takes no further step, so it never
\* saves; a file is saved only by a build of a configuration without any rejected
\* field, and it is then the complete Meta + Acid + Aci sequence with the Meta tail
\* patched.
C12_AbortBeforeSave ==
    [][/\ pc # "failed"
       /\ (pc' = "failed") = (err' # "")
       /\ pc = "sac" => ((pc' = "failed") = ServicesBad)
       /\ EntryStep => ((pc' = "failed") = ~EntryValid(CurEntry))
       /\ pc = "meta" => ((pc' = "failed") = MetaBad)
       /\ pc = "acid" => ((pc' = "failed") = AcidBad)
       /\ pc = "aci" => ((pc' = "failed") = AciBad)
       /\ pc \in {"patch", "save"} => pc' # "failed"
       /\ pc' = "failed" => ~outfile'.saved
       /\ outfile'.saved => (pc' = "done" /\ ~HasViolation /\ CompleteFile')]_vars

\* A build that passed the service table, the capabilities, Meta and Acid and was
\* aborted in the Aci encoder, with nothing saved.
C12_Witness ==
    /\ pc = "failed"
    /\ AciBad
    /\ acid_writer.stream # <<>>
    /\ writer.stream # <<>>
    /\ ~outfile.saved

----------------------------------------------------------------------------
(* Determinism of the capability words *)

\* The entry encoded as the first entry of a list: write_kc's sink is empty and
\* its locals are unbound.
EncodedAlone(cap) == kc_entry(KcState(NewWriter, Unbound, -1), 0, cap)

\* C13: the words emitted for a capability entry depend only on that entry, not on
\* the entries encoded before it in the same list: an entry is accepted after other
\* entries exactly when it is accepted as the first entry of a list, and emits the
\* same words in both builds.
C13_WordsDependOnEntryOnly ==
    [][EntryStep =>
           /\ Accepted = EncodedAlone(CurEntry).ok
           /\ Emitted = Words(EncodedAlone(CurEntry).writer.stream)]_vars

----------------------------------------------------------------------------
(* The number of capability words *)

\* A syscalls entry that grants no number.
EmptySyscalls(cap) == cap.type = "syscalls" /\ cap.value.list = <<>>

\* The words an accepted entry emits: one for each group of 24 numbers in which a
\* syscalls entry grants a number, two for a map entry, one for any other.
WordCount(cap) ==
    IF cap.type = "syscalls" THEN Cardinality({Num(cap.value.list[i]) \div 24 :
                                                  i \in 1..Len(cap.value.list)})
    ELSE IF cap.type = "map" THEN 2
    ELSE 1

RECURSIVE WordCountUpTo(_, _)
WordCountUpTo(caps, n) ==
    IF n = 0 THEN 0 ELSE WordCountUpTo(caps, n - 1) + WordCount(caps[n])

\* C14 as the specification states it: when write_kc returns, it has emitted at
\* least as many words as the list has entries.
C14_WordsAtLeastEntries ==
    pc = "meta" => Len(Words(kc_writer.stream)) >= Len(contents.kernel_capabilities)

\* C14, amended: every accepted entry contributes at least one word (a map entry
\* two, a syscalls entry one for each group in which it grants a number), except
\* a syscalls entry that grants no number, which contributes none; so the number
\* of words is at least the number of entries that are not such empty syscalls
\* entries.
C14_WordsAtLeastNonEmptyEntries ==
    LET caps == contents.kernel_capabilities
        empty == {i \in 1..cap_idx : EmptySyscalls(caps[i])}
    IN  pc \in {"kc", "meta"} =>
            /\ Len(Words(kc_writer.stream)) = WordCountUpTo(caps, cap_idx)
            /\ Len(Words(kc_writer.stream)) >= cap_idx - Cardinality(empty)
            /\ \A i \in 1..cap_idx : WordCount(caps[i]) = 0 <=> EmptySyscalls(caps[i])

\* write_kc has returned fewer words than the list has entries: a list with a
\* syscalls entry that grants no number.
C14_Witness ==
    /\ pc = "meta"
    /\ Len(contents.kernel_capabilities) = 2
    /\ \E i \in 1..2 : EmptySyscalls(contents.kernel_capabilities[i])
    /\ Len(Words(kc_writer.stream)) = 1

----------------------------------------------------------------------------
(* The shared tables in the Acid and Aci regions *)

\* The table of a region whose header records its offset at byte at and its size
\* in the four bytes after.
TableOffset(region, at) == read_u32(region, at)

TableSize(region, at) == read_u32(region, at + 4)

TableBytes(region, at) ==
    SubSeq(region, TableOffset(region, at) + 1, TableOffset(region, at) + TableSize(region, at))

\* The header of a finished region (its service table fields at sac_at, its
\* capability fields at kc_at) records the two shared blobs where they are.
SharedTables(region, sac_at, kc_at) ==
    /\ TableOffset(region, sac_at) % 16 = 0
    /\ TableOffset(region, kc_at) % 16 = 0
    /\ TableSize(region, sac_at) = Len(sac_writer.stream)
    /\ TableSize(region, kc_at) = Len(kc_writer.stream)
    /\ TableBytes(region, sac_at) = sac_writer.stream
    /\ TableBytes(region, kc_at) = kc_writer.stream
    /\ TableOffset(region, kc_at) >= TableOffset(region, sac_at) + TableSize(region, sac_at)
    /\ Len(region) = TableOffset(region, kc_at) + TableSize(region, kc_at)

\* The Acid and Aci regions as they are before the header fields are patched.
AcidUnpatched ==
    acid_tables(acid_fac(acid_head(contents).writer, contents).writer,
                sac_writer, kc_writer).writer.stream

AciUnpatched ==
    LET h == aci_head(contents)
        co == aci_coi(h.writer, contents.filesystem_access.content_owner_ids)
        sd == aci_sdoi(co.writer, contents.filesystem_access.save_data_owner_ids)
    IN  aci_tables(sd.writer, h.fah_offset, co, sd, sac_writer, kc_writer).writer.stream

\* Two streams of one length that differ at most in the bytes from..to (1-based).
SameOutside(s, t, from, to) ==
    /\ Len(s) = Len(t)
    /\ \A i \in 1..Len(s) : (i < from \/ i > to) => s[i] = t[i]

\* C15: in the Acid and in the Aci region of every valid build the service table
\* and capability offsets recorded in the header are multiples of 0x10, the
\* recorded sizes are the lengths of the shared blobs, the bytes of the region at
\* [offset, offset + size) are the service table blob and the capability blob, the
\* same in both regions, and the backpatch of the header fields changes only bytes
\* of the header: not these bytes, not the region's length.
C15_SharedBlobs ==
    AciBuilt =>
        /\ SharedTables(acid_writer.stream, 552, 560)
        /\ SharedTables(aci_writer.stream, 40, 48)
        /\ TableBytes(acid_writer.stream, 552) = TableBytes(aci_writer.stream, 40)
        /\ TableBytes(acid_writer.stream, 560) = TableBytes(aci_writer.stream, 48)
        /\ SameOutside(AcidUnpatched, acid_writer.stream, 517, 568)
        /\ SameOutside(AciUnpatched, aci_writer.stream, 33, 56)
        /\ TableOffset(acid_writer.stream, 552) >= 568
        /\ TableOffset(aci_writer.stream, 40) >= 56

\* A valid build with both blobs filled, the service table of a length that is no
\* multiple of 0x10, so that the capability offset is the table's end rounded up.
C15_Witness ==
    /\ AciBuilt
    /\ Len(sac_writer.stream) % 16 # 0
    /\ Len(kc_writer.stream) > 0
    /\ TableOffset(acid_writer.stream, 560)
           > TableOffset(acid_writer.stream, 552) + TableSize(acid_writer.stream, 552)

----------------------------------------------------------------------------
(* The byte sink *)

Max(a, b) == IF a >= b THEN a ELSE b

\* w2 is w with the cursor at target: the stream kept, and extended with zero
\* bytes to exactly target if target is past its end.
Repositioned(w, w2, target) ==
    /\ w2.position = target
    /\ Len(w2.stream) = Max(Len(w.stream), target)
    /\ SubSeq(w2.stream, 1, Len(w.stream)) = w.stream
    /\ \A i \in (Len(w.stream) + 1)..Len(w2.stream) : w2.stream[i] = 0

\* w2 is w with raw written at the cursor: the cursor after raw, the stream
\* extended by what raw needs, every byte outside raw's range kept.
Written(w, w2, raw) ==
    /\ w2.position = w.position + Len(raw)
    /\ Len(w2.stream) = Max(Len(w.stream), w.position + Len(raw))
    /\ SubSeq(w2.stream, w.position + 1, w.position + Len(raw)) = raw
    /\ \A i \in 1..Len(w.stream) :
           (i <= w.position \/ i > w.position + Len(raw)) => w2.stream[i] = w.stream[i]

\* C16: after any sequence of write, seek, seek_rel and align that keeps the cursor
\* non-negative the cursor is at most the stream's length; a seek, seek_rel or
\* align leaves the cursor at its target and, when the target is past the end,
\* extends the stream with zero bytes to exactly the target; no operation shrinks
\* the stream, and none changes a byte outside the range a write covers.
C16_ByteSink ==
    [][pc = "sink" =>
           /\ 0 <= writer'.position /\ writer'.position <= Len(writer'.stream)
           /\ Len(writer'.stream) >= Len(writer.stream)
           /\ \A i \in 1..Len(writer.stream) :
                  writer'.stream[i] # writer.stream[i] =>
                      (writer.position < i /\ i <= writer'.position)
           /\ \A offset \in 0..MaxSinkLen :
                  writer' = seek(writer, offset) => Repositioned(writer, writer', offset)
           /\ \A offset \in (-MaxSinkLen)..MaxSinkLen :
                  (0 <= writer.position + offset /\ writer' = seek_rel(writer, offset)) =>
                      Repositioned(writer, writer', writer.position + offset)
           /\ \A alignment \in SinkAlignments :
                  writer' = align(writer, alignment) =>
                      Repositioned(writer, writer', AlignUp(writer.position, alignment))
           /\ \A raw \in SeqsUpTo(SinkBytes, MaxRawLen) :
                  writer' = write(writer, raw) => Written(writer, writer', raw)]_vars

\* A sink that was extended by a seek past its end, written after the gap and
\* moved back: zero bytes before a written byte, the cursor before the end.
C16_Witness ==
    /\ pc = "sink"
    /\ writer.position < Len(writer.stream)
    /\ \E i, j \in 1..Len(writer.stream) :
           i < j /\ writer.stream[i] = 0 /\ writer.stream[j] # 0

====
